---- MODULE Spec2Model ----
(***************************************************************************)
(* Model of the wide-dataset core of SAPDO: the Storage Router              *)
(* (csv_processor.process_csv_file), the Chunked Ingestion Engine           *)
(* (DuckDBProcessor), the Metadata Catalog (MetadataStore), the Semantic    *)
(* Column Index (VectorStore / PineconeVectorStore / QdrantVectorStore)     *)
(* and the Query Translator (WideCsvProcessor.query_dataset).               *)
(*                                                                         *)
(* Encoding.  Texts (query texts, SQL, table names, column names) are TLA+  *)
(* strings and the Python string operations are computed character by       *)
(* character.  A CSV is described by its shape (number of header columns,   *)
(* number of data rows, whether header and body parse); column i of a CSV   *)
(* is named ColName(i).  A list of the columns 1..n in header order is      *)
(* stored as the number n, a set of columns as a set of indices.            *)
(***************************************************************************)
EXTENDS Integers, Sequences, FiniteSets, TLC

(***************************************************************************)
(* Program constants.                                                       *)
(***************************************************************************)
MAX_POSTGRES_COLUMNS == 1600
WIDE_GROUP_THRESHOLD == 1000
group_size == 500
COLUMNS_SAMPLE == 10
SAMPLE_ROWS == 5
SEARCH_LIMIT == 5
fetch_batch_size == 100
DEFAULT_LIMIT == 1000
DEFAULT_ROW_LIMIT == 10
upsert_batch_size == 50
MIN_HALVING_SIZE == 10
batch_size == 500
HEX_LEN == 8
DEFAULT_CHUNK_SIZE == 1000

(***************************************************************************)
(* Python string operations.                                                *)
(***************************************************************************)
LowerAlpha == "abcdefghijklmnopqrstuvwxyz"
UpperAlpha == "ABCDEFGHIJKLMNOPQRSTUVWXYZ"
Digits == "0123456789"

Ch(s, i) == SubSeq(s, i, i)

Min(a, b) == IF a <= b THEN a ELSE b

\* Python's s[i-1:j]: the characters i..j of s that exist
Slice(s, i, j) == IF i > Len(s) \/ j < i THEN "" ELSE SubSeq(s, i, Min(j, Len(s)))

\* position of the one-character string c in s from position i on, 0 when absent
RECURSIVE IndexFrom(_, _, _)
IndexFrom(c, s, i) ==
    IF i > Len(s) THEN 0 ELSE IF Ch(s, i) = c THEN i ELSE IndexFrom(c, s, i + 1)

IndexOf(c, s) == IndexFrom(c, s, 1)

Chars(s) == {Ch(s, i) : i \in 1..Len(s)}

\* str.upper / str.lower on one character, as tables over the letters
ToUpper == [c \in Chars(LowerAlpha) |-> Ch(UpperAlpha, IndexOf(c, LowerAlpha))]
ToLower == [c \in Chars(UpperAlpha) |-> Ch(LowerAlpha, IndexOf(c, UpperAlpha))]
DigitChars == Chars(Digits)
AlphaChars == Chars(LowerAlpha) \cup Chars(UpperAlpha)

IsSpace(c) == c \in {" ", "\t", "\n", "\r"}
IsDigit(c) == c \in DigitChars
IsAlpha(c) == c \in AlphaChars
IsAlnum(c) == IsAlpha(c) \/ IsDigit(c)

UpperCh(c) == IF c \in DOMAIN ToUpper THEN ToUpper[c] ELSE c
LowerCh(c) == IF c \in DOMAIN ToLower THEN ToLower[c] ELSE c

RECURSIVE Upper(_)
Upper(s) == IF Len(s) = 0 THEN "" ELSE UpperCh(Ch(s, 1)) \o Upper(SubSeq(s, 2, Len(s)))

RECURSIVE Lower(_)
Lower(s) == IF Len(s) = 0 THEN "" ELSE LowerCh(Ch(s, 1)) \o Lower(SubSeq(s, 2, Len(s)))

RECURSIVE LStrip(_)
LStrip(s) == IF Len(s) > 0 /\ IsSpace(Ch(s, 1)) THEN LStrip(SubSeq(s, 2, Len(s))) ELSE s

RECURSIVE RStrip(_)
RStrip(s) == IF Len(s) > 0 /\ IsSpace(Ch(s, Len(s))) THEN RStrip(SubSeq(s, 1, Len(s) - 1)) ELSE s

Strip(s) == RStrip(LStrip(s))

StartsWith(s, p) == Len(s) >= Len(p) /\ SubSeq(s, 1, Len(p)) = p

\* Python's  sub in s
Contains(s, sub) == \E i \in 1..(Len(s) - Len(sub) + 1) : SubSeq(s, i, i + Len(sub) - 1) = sub

\* str(n) for n >= 0
RECURSIVE ToStr(_)
ToStr(n) == IF n < 10 THEN Ch(Digits, n + 1) ELSE ToStr(n \div 10) \o Ch(Digits, (n % 10) + 1)

IsNum(s) == Len(s) > 0 /\ \A i \in 1..Len(s) : IsDigit(Ch(s, i))

\* int(s) for a string of digits
RECURSIVE ParseInt(_)
ParseInt(s) == IF Len(s) = 0 THEN 0
               ELSE 10 * ParseInt(SubSeq(s, 1, Len(s) - 1)) + (IndexOf(Ch(s, Len(s)), Digits) - 1)

\* the words of s, split at white space
RECURSIVE Words(_)
Words(s) ==
    LET t == LStrip(s) IN
    IF Len(t) = 0 THEN << >>
    ELSE LET ends == {i \in 1..Len(t) : IsSpace(Ch(t, i))}
             e == IF ends = {} THEN Len(t) + 1
                  ELSE CHOOSE i \in ends : \A j \in ends : i <= j
         IN << SubSeq(t, 1, e - 1) >> \o Words(SubSeq(t, e, Len(t)))


(***************************************************************************)
(* Bounds of the model.                                                     *)
(***************************************************************************)
MaxCalls == 2          \* ingestion calls (router or direct) in one behaviour
MaxPoison == 1         \* vectors the hosted backend rejects in one index call
MaxReads == 1          \* get / query_dataset / search_columns / retry calls in one behaviour
\* longest column name handed to clean_column_name
MaxNameLen == 3
\* datasets that exist in the two stores when they are listed
MaxDatasets == 4

(***************************************************************************)
(* Inputs.                                                                  *)
(***************************************************************************)
\* A CSV byte buffer: hdr - the header row parses; ncols - header columns;
\* nrows - data rows; body - the data rows parse.
Csv(h, c, r, b) == [hdr |-> h, ncols |-> c, nrows |-> r, body |-> b]

NarrowCsvs == {Csv(TRUE, 3, 3, TRUE), Csv(TRUE, 1600, 1, TRUE)}
WideCsvs   == {Csv(TRUE, 1601, 3, TRUE), Csv(TRUE, 1601, 1, FALSE)}
BadCsvs    == {Csv(FALSE, 0, 0, FALSE)}
RouterCsvs == NarrowCsvs \cup WideCsvs \cup BadCsvs
RouterNames == {"My Data"}

\* calls of WideCsvProcessor(chunk_size=...).process_csv_file(csv, dataset_name)
Direct(csv, name, chunk) == [csv |-> csv, dataset_name |-> name, chunk_size |-> chunk]
DirectCalls ==
    {Direct(Csv(TRUE, 3, 0, TRUE), "t", DEFAULT_CHUNK_SIZE),
     Direct(Csv(TRUE, 3, 7, TRUE), "t", 2),
     Direct(Csv(TRUE, 1000, 2, TRUE), "t", 2),
     Direct(Csv(TRUE, 1001, 2, TRUE), "t", DEFAULT_CHUNK_SIZE),
     Direct(Csv(TRUE, 2, 1, FALSE), "t", DEFAULT_CHUNK_SIZE),
     Direct(Csv(FALSE, 0, 0, FALSE), "t", DEFAULT_CHUNK_SIZE)}

\* the datasets the query calls run against
SampleCalls ==
    {Direct(Csv(TRUE, 3, 3, TRUE), "t1", 2),
     Direct(Csv(TRUE, 2, 1200, TRUE), "My Data", DEFAULT_CHUNK_SIZE)}

\* n of the "SELECT * FROM <table> LIMIT n" requests
SqlLimits == {0, 5, 1500}

SelectAll(t, n) == "SELECT * FROM " \o t \o " LIMIT " \o ToStr(n)

\* SQL requests against table t
SqlTexts(t) ==
    {SelectAll(t, n) : n \in SqlLimits}
    \cup {"  select c1 from " \o t,
          "SELECT MAX(c2) FROM " \o t,
          "SELECT c1 FROM " \o t \o " -- show me first 3"}

\* natural-language requests
NlTexts ==
    {"how many rows", "Count the max", "the average", "mean and max",
     "max or min", "minimum", "list values"}

\* the limit argument of query_dataset
QueryLimits == {2, DEFAULT_LIMIT}

Backends == {"local", "pinecone", "qdrant"}

\* name of the i-th header column
ColName(i) == "c" \o ToStr(i)

\* index of the header column called name among n columns, 0 when there is none
ColIndex(name, n) ==
    IF Len(name) >= 2 /\ Ch(name, 1) = "c" /\ IsNum(SubSeq(name, 2, Len(name)))
       /\ ColName(ParseInt(SubSeq(name, 2, Len(name)))) = name
       /\ ParseInt(SubSeq(name, 2, Len(name))) \in 1..n
    THEN ParseInt(SubSeq(name, 2, Len(name)))
    ELSE 0

(***************************************************************************)
(* State.                                                                   *)
(***************************************************************************)
VARIABLES
    vsType,         \* VECTOR_STORE_TYPE, read once at import
    files,          \* parquet files of the storage root: table name -> [nrows, ncols]
    views,          \* views registered in sapdo.duckdb: set of table names
    datasets,       \* catalog table datasets: id -> row
    columns,        \* catalog table columns: id -> number of rows (columns 1..k of the dataset)
    column_groups,  \* catalog table column_groups: id -> sequence of groups
    remote,         \* hosted / separately-run index: dataset id -> set of indexed columns
    mem,            \* embeddings held in memory by the long-lived processor (local backend)
    vsfiles,        \* <dataset id>.json files of the local backend: id -> saved embeddings
    pending,        \* uncommitted catalog writes on the long-lived processor's connection
    ncalls,         \* ingestion calls made so far (each draws fresh uuids)
    call,           \* what the latest ingestion call did and returned
    last,           \* the last get / query_dataset / search_columns / delete call and its result
    nreads,         \* get / query_dataset / search_columns / retry calls made so far
    deleted,        \* ids for which delete_dataset returned True
    tasks           \* ingestions in flight, each on the processor built for its request

vars == << vsType, files, views, datasets, columns, column_groups, remote, mem,
           vsfiles, pending, ncalls, call, last, nreads, deleted, tasks >>

World == [files |-> files, views |-> views, datasets |-> datasets, columns |-> columns,
          column_groups |-> column_groups, remote |-> remote, vsfiles |-> vsfiles]

None == [type |-> "none"]

\* no get / query / search / delete call since the latest ingestion
NoRead == [op |-> "none"]

\* f with key k bound to v
Put(f, k, v) == [x \in (DOMAIN f) \cup {k} |-> IF x = k THEN v ELSE f[x]]
\* f without key k
Del(f, k) == [x \in (DOMAIN f) \ {k} |-> f[x]]
Empty == [x \in {} |-> 0]

(***************************************************************************)
(* Chunked Ingestion Engine: DuckDBProcessor.process_csv_file               *)
(***************************************************************************)
\* ''.join(c if c.isalnum() else '_' for c in dataset_name.lower())
RECURSIVE CleanName(_)
CleanName(s) ==
    IF Len(s) = 0 THEN ""
    ELSE (IF IsAlnum(LowerCh(Ch(s, 1))) THEN LowerCh(Ch(s, 1)) ELSE "_")
         \o CleanName(SubSeq(s, 2, Len(s)))

\* uuid.uuid4().hex[:8] of the k-th call: a fresh token of 8 characters
RECURSIVE ZeroPad(_, _)
ZeroPad(s, n) == IF Len(s) >= n THEN s ELSE ZeroPad("0" \o s, n)
Hex(k) == ZeroPad(ToStr(k), HEX_LEN)

\* the table name without the random suffix
TableName_NoUuid(dataset_name, k) == "dataset_" \o CleanName(dataset_name)

\* f"dataset_{clean_name}_{uuid.uuid4().hex[:8]}"
TableName(dataset_name, k) == "dataset_" \o CleanName(dataset_name) \o "_" \o Hex(k)

\* the row batches pd.read_csv(chunksize=...) yields: their lengths
RECURSIVE ChunkLens(_, _)
ChunkLens(nrows, chunk_size) ==
    IF nrows <= chunk_size THEN << nrows >>
    ELSE << chunk_size >> \o ChunkLens(nrows - chunk_size, chunk_size)

RECURSIVE SumSeq(_)
SumSeq(s) == IF Len(s) = 0 THEN 0 ELSE Head(s) + SumSeq(Tail(s))

\* total_rows that counts the first chunk only
TotalRows_FirstChunkOnly(chunks) == Head(chunks)

\* total_rows: len(first_chunk) plus the lengths of the remaining chunks
TotalRows(chunks) == Head(chunks) + SumSeq(Tail(chunks))

\* the except-branch without the unlink
CleanupPartial_NoUnlink(fs, table) == fs

\* except-branch of process_csv_file: parquet_path.unlink() if it exists
CleanupPartial(fs, table) == IF table \in DOMAIN fs THEN Del(fs, table) ELSE fs

\* header_df.columns of pd.read_csv: the header names as written; a repeated
\* name gets the suffix .k of its k-th repetition
HeaderColumns(header) ==
    [i \in 1..Len(header) |->
        LET k == Cardinality({j \in 1..(i - 1) : header[j] = header[i]})
        IN IF k = 0 THEN header[i] ELSE header[i] \o "." \o ToStr(k)]

\* pd.api.types.is_numeric_dtype of a column of the first chunk
IsNumericDtype(dtype) == dtype \in {"int64", "float64", "Int64"}

\* the dtypes loop: dtype - the dtype of the column as read; cells - its
\* values in the first chunk ("" is a missing value)
InferType(dtype, cells) ==
    IF IsNumericDtype(dtype)
    THEN IF \A i \in 1..Len(cells) : cells[i] = "" \/ IsNum(cells[i])
         THEN "Int64" ELSE "float64"
    ELSE "object"

\* column_metadata["columns"]: the first chunk is read with dtype='object'
ColumnMetadata(header, cells) ==
    [i \in 1..Len(header) |->
        [name |-> HeaderColumns(header)[i], type |-> InferType("object", cells[i])]]

DuckFaults == {"none", "empty", "concat", "write", "write_partial", "register"}

\* fault: the step the environment makes fail.  "empty": read_csv yields no first
\* chunk for a header-only file; "write_partial": to_parquet fails after creating the file.
WriteParquet(w, csv, table, chunks, written, fault) ==
    IF ~csv.hdr THEN [ok |-> FALSE, table |-> table, row_count |-> 0, ncols |-> 0, w |-> w]
    ELSE IF ~csv.body \/ (fault = "empty" /\ csv.nrows = 0) \/ fault = "concat" \/ fault = "write"
    THEN [ok |-> FALSE, table |-> table, row_count |-> 0, ncols |-> 0,
          w |-> [w EXCEPT !.files = CleanupPartial(w.files, table)]]
    ELSE IF fault = "write_partial" \/ fault = "register"
    THEN [ok |-> FALSE, table |-> table, row_count |-> 0, ncols |-> 0,
          w |-> [w EXCEPT !.files = CleanupPartial(written, table)]]
    ELSE [ok |-> TRUE, table |-> table, row_count |-> TotalRows(chunks), ncols |-> csv.ncols,
          w |-> [w EXCEPT !.files = written, !.views = w.views \cup {table}]]

\* table: the name drawn for the call; chunks: the batches read from the file
ReadChunks(w, csv, table, chunks, fault) ==
    WriteParquet(w, csv, table, chunks,
                 Put(w.files, table, [nrows |-> SumSeq(chunks), ncols |-> csv.ncols]), fault)

DuckProcess(w, csv, dataset_name, k, chunk_size, fault) ==
    ReadChunks(w, csv, TableName(dataset_name, k), ChunkLens(csv.nrows, chunk_size), fault)


(***************************************************************************)
(* Metadata Catalog: MetadataStore                                          *)
(***************************************************************************)
\* writes of an open sqlite transaction: dataset rows, column rows and groups
NoPending == [datasets |-> Empty, columns |-> Empty, column_groups |-> Empty]

\* what a connection reads: the committed tables plus its own open transaction
Visible(w, pend) ==
    [datasets |-> [d \in (DOMAIN w.datasets) \cup (DOMAIN pend.datasets) |->
                      IF d \in DOMAIN pend.datasets THEN pend.datasets[d] ELSE w.datasets[d]],
     columns |-> [d \in (DOMAIN w.columns) \cup (DOMAIN pend.columns) |->
                      (IF d \in DOMAIN w.columns THEN w.columns[d] ELSE 0)
                      + (IF d \in DOMAIN pend.columns THEN pend.columns[d] ELSE 0)],
     column_groups |-> [d \in (DOMAIN w.column_groups) \cup (DOMAIN pend.column_groups) |->
                      (IF d \in DOMAIN w.column_groups THEN w.column_groups[d] ELSE << >>)
                      \o (IF d \in DOMAIN pend.column_groups THEN pend.column_groups[d] ELSE << >>)]]

\* self.conn.commit()
Commit(w, pend) ==
    LET v == Visible(w, pend)
    IN [w EXCEPT !.datasets = v.datasets, !.columns = v.columns, !.column_groups = v.column_groups]


\* number of batches range(0, n, size) runs through
NumBatches(n, size) == (n + size - 1) \div size

\* the sequential windows of _create_automatic_column_groups
RECURSIVE SequentialGroups(_, _)
SequentialGroups(i, n) ==
    IF i >= n THEN << >>
    ELSE LET end_idx == Min(i + group_size, n)
         IN << [name |-> "Columns " \o ToStr(i + 1) \o "-" \o ToStr(end_idx),
                first |-> i + 1, last |-> end_idx] >> \o SequentialGroups(i + group_size, n)

\* type groups (one per type, all columns are typed object), prefix groups
\* (none: no generated header name has an underscore), sequential windows
AutomaticColumnGroups(n) ==
    << [name |-> "Type: object", first |-> 1, last |-> n] >> \o SequentialGroups(0, n)

\* the test with the boundary at 1000 columns included
StoreIsWide_Inclusive(n) == n >= WIDE_GROUP_THRESHOLD

\* the "more than 1000 columns" test of store_dataset_metadata
StoreIsWide(n) == n > WIDE_GROUP_THRESHOLD

\* the call to _create_automatic_column_groups and the return; w, pend: the
\* tables and the transaction after the column batches
StoreColumnGroups(w, pend, id, ncols, raised, fault) ==
    IF raised THEN [ok |-> FALSE, w |-> w, pend |-> pend]
    ELSE IF ~StoreIsWide(ncols) THEN [ok |-> TRUE, w |-> w, pend |-> pend]
    ELSE IF fault = -1
    THEN [ok |-> FALSE, w |-> w,
          pend |-> [pend EXCEPT !.column_groups =
                        Put(pend.column_groups, id, AutomaticColumnGroups(ncols))]]
    ELSE [ok |-> TRUE,
          w |-> Commit(w, [pend EXCEPT !.column_groups =
                               Put(pend.column_groups, id, AutomaticColumnGroups(ncols))]),
          pend |-> NoPending]

\* the batch loop: done batches were inserted and committed; p1: the
\* transaction holding the dataset row
StoreColumnBatches(w, p1, id, ncols, bsize, done, raised, fault) ==
    IF done >= 1
    THEN StoreColumnGroups(Commit(w, [p1 EXCEPT !.columns =
                                         Put(p1.columns, id, Min(done * bsize, ncols))]),
                           NoPending, id, ncols, raised, fault)
    ELSE StoreColumnGroups(w, p1, id, ncols, raised, fault)

\* fault: 0 none; b in 1..NumBatches: the insert of batch b raises; -1: the
\* group insert raises.  Returns the committed tables, the open transaction
\* and whether the call returned.
StoreDatasetMetadata(w, pend, id, name, table, ncols, row_count, bsize, fault) ==
    StoreColumnBatches(w,
        [pend EXCEPT !.datasets =
            Put(pend.datasets, id, [name |-> name, table_name |-> table, column_count |-> ncols,
                                    row_count |-> row_count, storage_format |-> "parquet"])],
        id, ncols, bsize,
        IF fault \in 1..NumBatches(ncols, bsize) THEN fault - 1 ELSE NumBatches(ncols, bsize),
        fault \in 1..NumBatches(ncols, bsize), fault)

\* the test with the boundary on the other side
GetIsWide_Inclusive(column_count) == column_count >= WIDE_GROUP_THRESHOLD

\* the "too many columns" test of get_dataset
GetIsWide(column_count) == column_count > WIDE_GROUP_THRESHOLD

\* _get_columns_sample: SELECT ... LIMIT ?
ColumnsSample(count, limit) == Min(count, limit)

\* get_dataset on the tables a connection sees
GetDataset(v, id) ==
    IF id \notin DOMAIN v.datasets THEN None
    ELSE LET dataset == v.datasets[id]
             column_count == IF id \in DOMAIN v.columns THEN v.columns[id] ELSE 0
             groups == IF id \in DOMAIN v.column_groups THEN v.column_groups[id] ELSE << >>
         IN IF GetIsWide(column_count)
            THEN [type |-> "dataset", id |-> id, table_name |-> dataset.table_name,
                  column_count |-> dataset.column_count, row_count |-> dataset.row_count,
                  keys |-> {"column_groups", "columns_truncated", "columns_sample"},
                  column_groups |-> [g \in 1..Len(groups) |-> groups[g].name],
                  columns_sample |-> ColumnsSample(column_count, COLUMNS_SAMPLE),
                  columns |-> 0]
            ELSE [type |-> "dataset", id |-> id, table_name |-> dataset.table_name,
                  column_count |-> dataset.column_count, row_count |-> dataset.row_count,
                  keys |-> {"columns"},
                  column_groups |-> << >>,
                  columns_sample |-> 0,
                  columns |-> column_count]

\* get_dataset_columns: SELECT ... FROM columns WHERE dataset_id = ? LIMIT ?
\* OFFSET ?; the rows returned, as the positions of the columns
GetDatasetColumns(v, id, offset, limit) ==
    LET count == IF id \in DOMAIN v.columns THEN v.columns[id] ELSE 0
    IN [i \in 1..Min(limit, IF count > offset THEN count - offset ELSE 0) |-> offset + i]

\* the delete that removes the datasets row only
CatalogDelete_KeepColumns(w, pend, id) ==
    LET c == Commit(w, [pend EXCEPT !.datasets =
                            [d \in (DOMAIN pend.datasets) \ {id} |-> pend.datasets[d]]])
    IN [c EXCEPT !.datasets = [d \in (DOMAIN c.datasets) \ {id} |-> c.datasets[d]]]

\* MetadataStore.delete_dataset: three DELETEs and a commit
CatalogDelete(w, pend, id) ==
    LET p == [datasets |-> [d \in (DOMAIN pend.datasets) \ {id} |-> pend.datasets[d]],
              columns |-> [d \in (DOMAIN pend.columns) \ {id} |-> pend.columns[d]],
              column_groups |-> [d \in (DOMAIN pend.column_groups) \ {id} |-> pend.column_groups[d]]]
        c == Commit(w, p)
    IN [c EXCEPT !.datasets = [d \in (DOMAIN c.datasets) \ {id} |-> c.datasets[d]],
                 !.columns = [d \in (DOMAIN c.columns) \ {id} |-> c.columns[d]],
                 !.column_groups = [d \in (DOMAIN c.column_groups) \ {id} |-> c.column_groups[d]]]


(***************************************************************************)
(* Semantic Column Index                                                    *)
(*                                                                         *)
(* An index maps a dataset id to the embedding records held for it.  The    *)
(* columns are embedded in header order, so the records of one dataset are  *)
(* the columns 1..upto except the set `missing` of vectors that were        *)
(* skipped: [upto |-> n, missing |-> {...}].                                *)
(***************************************************************************)
Records(upto, missing) == [upto |-> upto, missing |-> missing]
EntrySet(e) == (1..e.upto) \ e.missing
EntryCount(ix, id) == IF id \in DOMAIN ix THEN ix[id].upto - Cardinality(ix[id].missing) ELSE 0

\* columns covered by the batches 1..done of range(0, n, size)
DoneCols(done, n, size) == Min(done * size, n)

AddRecords(ix, id, upto, missing) ==
    IF upto = 0 THEN ix ELSE Put(ix, id, Records(upto, missing))

\* VectorStore.index_columns: fault b in 1..NumBatches makes model.encode raise in batch b
LocalIndexColumns(m, id, n, bsize, fault) ==
    LET nb == NumBatches(n, bsize)
        done == IF fault \in 1..nb THEN fault - 1 ELSE nb
    IN [ok |-> fault \notin 1..nb, ix |-> AddRecords(m, id, DoneCols(done, n, bsize), {})]

\* QdrantVectorStore.index_columns: fault b makes encode or client.upsert raise in batch b
QdrantIndexColumns(r, id, n, bsize, fault) ==
    LET nb == NumBatches(n, bsize)
        done == IF fault \in 1..nb THEN fault - 1 ELSE nb
    IN [ok |-> fault \notin 1..nb, ix |-> AddRecords(r, id, DoneCols(done, n, bsize), {})]

\* the single-vector upserts of one smaller batch: a rejected vector is skipped
SkippedSingles(lo, hi, poison) == (lo..hi) \cap poison

\* a smaller batch (half size): upserted whole, or vector by vector when rejected
SkippedSmaller(lo, hi, poison) ==
    IF (lo..hi) \cap poison = {} THEN {} ELSE SkippedSingles(lo, hi, poison)

\* the retry with smaller_batch_size = upsert_batch_size // 2 over vectors[j : j + 50]
RECURSIVE SkippedHalves(_, _, _, _)
SkippedHalves(k, hi, smaller, poison) ==
    IF k > hi THEN {}
    ELSE SkippedSmaller(k, Min(k + smaller - 1, hi), poison)
         \cup SkippedHalves(k + smaller, hi, smaller, poison)

\* one upsert batch lo..hi of at most 50 vectors: the vectors that are not
\* upserted.  The hosted index rejects every request that holds a vector of
\* poison, with a message of the given kind ("size": exceeds the maximum size).
SkippedBatch(lo, hi, poison, kind) ==
    IF (lo..hi) \cap poison = {} THEN {}
    ELSE IF kind = "size" /\ upsert_batch_size > MIN_HALVING_SIZE
         THEN SkippedHalves(lo, hi, upsert_batch_size \div 2, poison)
         ELSE lo..hi

\* for j in range(0, len(vectors), upsert_batch_size) over the vectors lo..hi
RECURSIVE SkippedAll(_, _, _, _)
SkippedAll(lo, hi, poison, kind) ==
    IF lo > hi THEN {}
    ELSE SkippedBatch(lo, Min(lo + upsert_batch_size - 1, hi), poison, kind)
         \cup SkippedAll(lo + upsert_batch_size, hi, poison, kind)

\* per batch of bsize columns: embed, then upsert in batches of 50
RECURSIVE SkippedUpTo(_, _, _, _, _)
SkippedUpTo(b, n, bsize, poison, kind) ==
    IF b = 0 THEN {}
    ELSE SkippedUpTo(b - 1, n, bsize, poison, kind)
         \cup SkippedAll((b - 1) * bsize + 1, Min(b * bsize, n), poison, kind)

\* PineconeVectorStore.index_columns: fault b makes _generate_embeddings raise in batch b
PineconeIndexColumns(r, id, n, bsize, fault, poison, kind) ==
    LET nb == NumBatches(n, bsize)
        done == IF fault \in 1..nb THEN fault - 1 ELSE nb
    IN [ok |-> fault \notin 1..nb,
        ix |-> AddRecords(r, id, DoneCols(done, n, bsize),
                          SkippedUpTo(done, n, bsize, poison, kind))]

\* VectorStore.save(<dataset id>.json): the whole in-memory store
Save(vf, id, m) == Put(vf, id, m)

(***************************************************************************)
(* WideCsvProcessor.process_csv_file                                        *)
(***************************************************************************)
Fault(step, at, poison, kind) == [step |-> step, at |-> at, poison |-> poison, kind |-> kind]
NoFault == Fault("none", 0, {}, "other")

\* a second connection cannot write while another one holds an open transaction
Locked(pend) == pend # NoPending

\* what a call that raised leaves behind, and what it had done by then
WideFailure(k, duck, stored, w, pend, m) ==
    [ok |-> FALSE, id |-> k, table |-> duck.table, duck |-> duck.ok, stored |-> stored,
     row_count |-> duck.row_count, column_count |-> duck.ncols, indexed |-> 0,
     w |-> w, pend |-> pend, m |-> m]

\* self.vector_store.index_columns of the configured backend
IndexColumns(backend, m, r, k, ncols, bsize, fault) ==
    CASE backend = "local" -> LocalIndexColumns(m, k, ncols, bsize,
                                                IF fault.step = "index" THEN fault.at ELSE 0)
      [] backend = "qdrant" -> QdrantIndexColumns(r, k, ncols, bsize,
                                                  IF fault.step = "index" THEN fault.at ELSE 0)
      [] OTHER -> PineconeIndexColumns(r, k, ncols, bsize,
                                       IF fault.step = "index" THEN fault.at ELSE 0,
                                       fault.poison, fault.kind)

\* Step 4 and the return: save the local store, build the summary
WideStep4(pend, m, backend, k, fault, duck, st, ix) ==
    IF ~ix.ok
    THEN WideFailure(k, duck, TRUE, IF backend = "local" THEN st.w
                                    ELSE [st.w EXCEPT !.remote = ix.ix],
                     pend, IF backend = "local" THEN ix.ix ELSE m)
    ELSE IF backend = "local" /\ fault.step = "save"
    THEN WideFailure(k, duck, TRUE, st.w, pend, ix.ix)
    ELSE [ok |-> TRUE, id |-> k, table |-> duck.table, duck |-> TRUE, stored |-> TRUE,
          row_count |-> duck.row_count, column_count |-> duck.ncols,
          indexed |-> EntryCount(ix.ix, k),
          w |-> IF backend = "local" THEN [st.w EXCEPT !.vsfiles = Save(st.w.vsfiles, k, ix.ix)]
                ELSE [st.w EXCEPT !.remote = ix.ix],
          pend |-> pend,
          m |-> IF backend = "local" THEN ix.ix ELSE m]

\* step 3 started whatever step 2 did
WideStep3_IndexAnyway(pend, m, own, backend, k, bsize, fault, duck, st) ==
    WideStep4(IF own THEN st.pend ELSE pend, m, backend, k, fault, duck, st,
              IndexColumns(backend, m, st.w.remote, k, duck.ncols, bsize, fault))

\* Step 3: index the columns; st: the outcome of step 2.  The transaction the
\* store leaves open is seen by a later call only when the processor lives on.
WideStep3(pend, m, own, backend, k, bsize, fault, duck, st) ==
    IF ~st.ok THEN WideFailure(k, duck, FALSE, st.w, IF own THEN st.pend ELSE pend, m)
    ELSE WideStep4(IF own THEN st.pend ELSE pend, m, backend, k, fault, duck, st,
                   IndexColumns(backend, m, st.w.remote, k, duck.ncols, bsize, fault))

\* Step 2: store the metadata; duck: the outcome of step 1
WideStep2(pend, m, own, backend, name, k, bsize, fault, duck) ==
    IF ~duck.ok THEN WideFailure(k, duck, FALSE, duck.w, pend, m)
    ELSE IF ~own /\ Locked(pend) THEN WideFailure(k, duck, FALSE, duck.w, pend, m)
    ELSE WideStep3(pend, m, own, backend, k, bsize, fault, duck,
                   StoreDatasetMetadata(duck.w, IF own THEN pend ELSE NoPending, k, name,
                                        duck.table, duck.ncols, duck.row_count, bsize,
                                        IF fault.step = "store" THEN fault.at ELSE 0))

\* own: the processor is the long-lived one (its connection and memory persist);
\* otherwise it is built for this call and dropped after it.
WideProcess(w, pend, m, own, backend, csv, name, k, chunk_size, bsize, fault) ==
    WideStep2(pend, m, own, backend, name, k, bsize, fault,
              DuckProcess(w, csv, name, k, chunk_size,
                          IF fault.step = "duck" THEN fault.at ELSE "none"))


(***************************************************************************)
(* Columnar engine: the statements of the model's SQL subset                *)
(***************************************************************************)
Raised == [ok |-> FALSE, n |-> 0, cols |-> << >>]

\* the item of a select list: "*", a column, COUNT(*), or AGG(column)
IsAggregate(item) ==
    \E f \in {"COUNT(", "AVG(", "MAX(", "MIN("} :
        StartsWith(Upper(item), f) /\ Len(item) > Len(f) /\ Ch(item, Len(item)) = ")"

AggregateArg(item) ==
    LET open == IndexOf("(", item) IN SubSeq(item, open + 1, Len(item) - 1)

\* the statement without its trailing "--" comment
StripComment(sql) ==
    LET starts == {i \in 1..Len(sql) : Slice(sql, i, i + 1) = "--"}
    IN IF starts = {} THEN sql
       ELSE SubSeq(sql, 1, (CHOOSE i \in starts : \A j \in starts : i <= j) - 1)

\* the position of FROM among the words of a statement: after the select
\* item, or after "<item> AS <alias>"; 0 when it is at neither
FromPos(ws) ==
    IF Len(ws) >= 4 /\ Upper(ws[3]) = "FROM" THEN 3
    ELSE IF Len(ws) >= 6 /\ Upper(ws[3]) = "AS" /\ Upper(ws[5]) = "FROM" THEN 5
    ELSE 0

\* the statement ends with LIMIT <n>
HasLimit(ws, fromPos) ==
    Len(ws) = fromPos + 3 /\ Upper(ws[fromPos + 2]) = "LIMIT" /\ IsNum(ws[fromPos + 3])

\* the rows a result set of n rows keeps under the statement's LIMIT
Cap(n, limited, lim) == IF limited THEN Min(n, lim) ELSE n

\* the select item evaluated on the file behind the view.
\* AVG raises: every column is written as text.
ExecuteSelect(w, table, item, label, star, limited, lim) ==
    IF table \notin w.views \/ table \notin DOMAIN w.files THEN Raised
    ELSE IF star THEN [ok |-> TRUE, n |-> Cap(w.files[table].nrows, limited, lim), cols |-> << "*" >>]
    ELSE IF IsAggregate(item)
         THEN IF StartsWith(Upper(item), "AVG(") THEN Raised
              ELSE IF (AggregateArg(item) = "*" /\ StartsWith(Upper(item), "COUNT("))
                      \/ ColIndex(Lower(AggregateArg(item)), w.files[table].ncols) > 0
                   THEN [ok |-> TRUE, n |-> Cap(1, limited, lim), cols |-> << label >>]
                   ELSE Raised
    ELSE IF ColIndex(Lower(item), w.files[table].ncols) > 0
         THEN [ok |-> TRUE, n |-> Cap(w.files[table].nrows, limited, lim), cols |-> << label >>]
    ELSE Raised

\* ws: the words of the statement; fromPos: where its FROM stands
ExecuteWords(w, ws, fromPos) ==
    IF ~(fromPos > 0 /\ Upper(ws[1]) = "SELECT"
         /\ (Len(ws) = fromPos + 1 \/ HasLimit(ws, fromPos)))
    THEN Raised
    ELSE ExecuteSelect(w, Lower(ws[fromPos + 1]), ws[2],
                       IF fromPos = 5 THEN ws[4] ELSE Lower(ws[2]),
                       ws[2] = "*" /\ fromPos = 3,
                       HasLimit(ws, fromPos),
                       IF HasLimit(ws, fromPos) THEN ParseInt(ws[fromPos + 3]) ELSE 0)

ExecuteStatement(w, ws) == ExecuteWords(w, ws, FromPos(ws))

\* conn.execute(sql): ok - no exception; n - rows of the result set; cols - its
\* column names ("*" stands for the header columns of the file, in order).
\* Handled: SELECT <item> [AS <alias>] FROM <view> [LIMIT <n>] [-- comment]; any
\* other text raises.
Execute(w, sql) == ExecuteStatement(w, Words(StripComment(sql)))

(***************************************************************************)
(* DuckDBProcessor.query_table                                              *)
(***************************************************************************)
RECURSIVE SkipSpaces(_, _)
SkipSpaces(s, i) == IF i <= Len(s) /\ IsSpace(Ch(s, i)) THEN SkipSpaces(s, i + 1) ELSE i

RECURSIVE SkipDigits(_, _)
SkipDigits(s, i) == IF i <= Len(s) /\ IsDigit(Ch(s, i)) THEN SkipDigits(s, i + 1) ELSE i

\* re.search(r'first\s+(\d+)', s): the positions where the pattern matches
FirstMatches(s) ==
    {i \in 1..Len(s) : /\ Slice(s, i, i + 4) = "first"
                       /\ SkipSpaces(s, i + 5) > i + 5
                       /\ SkipDigits(s, SkipSpaces(s, i + 5)) > SkipSpaces(s, i + 5)}

\* int(match.group(1)) if match else 10
RowLimit(s) ==
    IF FirstMatches(s) = {} THEN DEFAULT_ROW_LIMIT
    ELSE LET i == CHOOSE x \in FirstMatches(s) : \A y \in FirstMatches(s) : x <= y
             d == SkipSpaces(s, i + 5)
         IN ParseInt(SubSeq(s, d, SkipDigits(s, d) - 1))

IsShortcut(query_text) ==
    Contains(Lower(query_text), "show me") /\ Contains(Lower(query_text), "first")

IsSelect(query_text) == StartsWith(Upper(Strip(query_text)), "SELECT")

ErrorRows(sql) == [kind |-> "error", n |-> 1, cols |-> << "error" >>, executed |-> sql]

\* the fetchmany loop: total rows in the result set, fetched so far
RECURSIVE FetchLoop(_, _, _, _, _)
FetchLoop(total, fetched, limit, cols, sql) ==
    LET rows == Min(fetch_batch_size, total - fetched)
        all == fetched + rows
    IN  IF rows = 0 THEN [kind |-> "rows", n |-> fetched, cols |-> cols, executed |-> sql]
        ELSE IF all > limit
             THEN [kind |-> "warning", n |-> limit, cols |-> cols, executed |-> sql]
             ELSE FetchLoop(total, all, limit, cols, sql)

\* r: what conn.execute(sql) did.  The shortcut returns fetchdf() whole; the
\* SELECT branch runs the fetchmany loop.
Fetch(sql, r, shortcut, limit) ==
    IF ~r.ok THEN ErrorRows(sql)
    ELSE IF shortcut THEN [kind |-> "rows", n |-> r.n, cols |-> r.cols, executed |-> sql]
    ELSE FetchLoop(r.n, 0, limit, r.cols, sql)

\* the try block of a branch: execute the statement and collect its rows
RunSql(w, sql, shortcut, limit) == Fetch(sql, Execute(w, sql), shortcut, limit)

\* kind "rows": a list of n row records; "error": a list holding one error record;
\* "warning": the dict {"warning", "data"} with n rows under "data".
QueryTable(w, table_name, query_text, limit) ==
    IF IsShortcut(query_text) \/ IsSelect(query_text)
    THEN RunSql(w,
                IF IsShortcut(query_text)
                THEN "SELECT * FROM " \o table_name \o " LIMIT " \o ToStr(RowLimit(Lower(query_text)))
                ELSE IF ~Contains(Upper(query_text), "LIMIT")
                THEN query_text \o " LIMIT " \o ToStr(limit) ELSE query_text,
                IsShortcut(query_text), limit)
    ELSE [kind |-> "error", n |-> 1, cols |-> << "error" >>, executed |-> ""]

\* get_table_sample
GetTableSample(w, table_name, limit) ==
    QueryTable(w, table_name, "SELECT * FROM " \o table_name \o " LIMIT " \o ToStr(limit), DEFAULT_LIMIT)


(***************************************************************************)
(* search_columns                                                           *)
(***************************************************************************)
Rankings == {"asc", "desc"}

\* similarity of the query to column i of dataset id, as the embedding model
\* of the behaviour has it (two models: one prefers early, one late columns)
Sim(rank, id, i) == IF rank = "asc" THEN 0 - (id * 10000 + i) ELSE id * 10000 + i

AllEntries(ix) == UNION {{<< id, i >> : i \in EntrySet(ix[id])} : id \in DOMAIN ix}

Hit(rank, e) == [dataset_id |-> e[1], column_name |-> ColName(e[2]),
                 column_type |-> "object", score |-> Sim(rank, e[1], e[2])]

\* the ranking with the sort ascending: the least similar entries first
RECURSIVE TopHits_Ascending(_, _, _)
TopHits_Ascending(S, rank, limit) ==
    IF S = {} \/ limit <= 0 THEN << >>
    ELSE LET worst == CHOOSE e \in S : \A f \in S : Sim(rank, e[1], e[2]) <= Sim(rank, f[1], f[2])
         IN << Hit(rank, worst) >> \o TopHits_Ascending(S \ {worst}, rank, limit - 1)

\* similarities.sort(reverse=True)[:limit]
RECURSIVE TopHits(_, _, _)
TopHits(S, rank, limit) ==
    IF S = {} \/ limit <= 0 THEN << >>
    ELSE LET best == CHOOSE e \in S : \A f \in S : Sim(rank, e[1], e[2]) >= Sim(rank, f[1], f[2])
         IN << Hit(rank, best) >> \o TopHits(S \ {best}, rank, limit - 1)

\* VectorStore.search_columns over the embeddings of one processor
LocalSearchColumns(m, rank, limit) ==
    IF \A id \in DOMAIN m : EntryCount(m, id) = 0 THEN << >>
    ELSE TopHits(AllEntries(m), rank, limit)

\* PineconeVectorStore / QdrantVectorStore.search_columns: top_k of the shared index
RemoteSearchColumns(r, rank, limit) == TopHits(AllEntries(r), rank, limit)

SearchColumns(backend, m, r, rank, limit) ==
    IF backend = "local" THEN LocalSearchColumns(m, rank, limit)
    ELSE RemoteSearchColumns(r, rank, limit)

(***************************************************************************)
(* Query Translator: WideCsvProcessor.query_dataset                         *)
(***************************************************************************)
HasWord(query_text, a, b) == Contains(Lower(query_text), a) \/ Contains(Lower(query_text), b)

\* the templates with the maximum rule tried before the count rule
GenerateSql_MaxFirst(query_text, table_name, top_column, limit) ==
    IF HasWord(query_text, "maximum", "max")
    THEN "SELECT MAX(" \o top_column \o ") AS maximum FROM " \o table_name
    ELSE IF HasWord(query_text, "count", "how many")
    THEN "SELECT COUNT(*) AS count FROM " \o table_name
    ELSE IF HasWord(query_text, "average", "mean")
    THEN "SELECT AVG(" \o top_column \o ") AS average FROM " \o table_name
    ELSE IF HasWord(query_text, "minimum", "min")
    THEN "SELECT MIN(" \o top_column \o ") AS minimum FROM " \o table_name
    ELSE "SELECT " \o top_column \o " FROM " \o table_name \o " LIMIT " \o ToStr(limit)

\* the SQL template chosen for a natural-language request
GenerateSql(query_text, table_name, top_column, limit) ==
    IF HasWord(query_text, "count", "how many")
    THEN "SELECT COUNT(*) AS count FROM " \o table_name
    ELSE IF HasWord(query_text, "average", "mean")
    THEN "SELECT AVG(" \o top_column \o ") AS average FROM " \o table_name
    ELSE IF HasWord(query_text, "maximum", "max")
    THEN "SELECT MAX(" \o top_column \o ") AS maximum FROM " \o table_name
    ELSE IF HasWord(query_text, "minimum", "min")
    THEN "SELECT MIN(" \o top_column \o ") AS minimum FROM " \o table_name
    ELSE "SELECT " \o top_column \o " FROM " \o table_name \o " LIMIT " \o ToStr(limit)

\* the branches with the index consulted before the SELECT test
QueryKind_IndexFirst(query_text, relevant_columns) ==
    IF relevant_columns # << >> THEN "nl_query"
    ELSE IF IsSelect(query_text) THEN "sql_query"
    ELSE "sample"

\* the branch taken once the dataset was found
QueryKind(query_text, relevant_columns) ==
    IF IsSelect(query_text) THEN "sql_query"
    ELSE IF relevant_columns # << >> THEN "nl_query"
    ELSE "sample"

\* the search raises: the embedding call or the index query fails (the local
\* store returns [] before either when it holds no embeddings)
SearchRaises(backend, m, sfail) ==
    sfail /\ (backend = "local" => \E id \in DOMAIN m : EntryCount(m, id) > 0)

\* the return of a request that was not a SELECT and whose search returned;
\* sql_query: the statement built from the top column
QueryAnswer(w, dataset_id, table_name, query_text, limit, relevant_columns, sql_query) ==
    IF relevant_columns # << >>
    THEN [type |-> "nl_query", dataset_id |-> dataset_id, query |-> query_text, limit |-> limit,
          sql_query |-> sql_query, relevant_columns |-> relevant_columns,
          results |-> QueryTable(w, table_name, sql_query, limit)]
    ELSE [type |-> "sample", dataset_id |-> dataset_id, query |-> query_text, limit |-> limit,
          message |-> "Could not determine relevant columns",
          results |-> GetTableSample(w, table_name, SAMPLE_ROWS)]

\* the branches of query_dataset once the dataset was found; relevant_columns:
\* what search_columns returns when it does not raise
QueryFound(w, m, backend, dataset_id, table_name, query_text, limit, sfail, relevant_columns) ==
    IF QueryKind(query_text, relevant_columns) = "sql_query"
    THEN [type |-> "sql_query", dataset_id |-> dataset_id, query |-> query_text, limit |-> limit,
          results |-> QueryTable(w, table_name, query_text, limit)]
    ELSE IF SearchRaises(backend, m, sfail)
    THEN [type |-> "raise", dataset_id |-> dataset_id, query |-> query_text, limit |-> limit,
          message |-> "search failed"]
    ELSE QueryAnswer(w, dataset_id, table_name, query_text, limit, relevant_columns,
                     IF relevant_columns = << >> THEN ""
                     ELSE GenerateSql(query_text, table_name,
                                      relevant_columns[1].column_name, limit))

\* dataset: what get_dataset returned
QueryOn(w, m, backend, dataset_id, query_text, limit, rank, sfail, dataset) ==
    IF dataset = None
    THEN [type |-> "raise", dataset_id |-> dataset_id, query |-> query_text, limit |-> limit,
          message |-> "Dataset not found"]
    ELSE QueryFound(w, m, backend, dataset_id, dataset.table_name, query_text, limit, sfail,
                    SearchColumns(backend, m, w.remote, rank, SEARCH_LIMIT))

\* v: the catalog as the processor's connection sees it; m: its embeddings;
\* sfail: the index backend fails during the search
QueryDataset(w, v, m, backend, dataset_id, query_text, limit, rank, sfail) ==
    QueryOn(w, m, backend, dataset_id, query_text, limit, rank, sfail, GetDataset(v, dataset_id))


(***************************************************************************)
(* csv_processor.clean_column_name                                          *)
(***************************************************************************)
\* the characters column names are drawn from: a lower-case and an upper-case
\* letter, a digit, a space, a special character and the underscore
NameChars == {"a", "Z", "7", " ", "-", "_"}

RECURSIVE NamesOfLen(_)
NamesOfLen(n) == IF n = 0 THEN {""} ELSE {c \o t : c \in NameChars, t \in NamesOfLen(n - 1)}

\* .replace(' ', '_') and then c if c.isalnum() or c == '_' else '_', per character
RECURSIVE CleanChars(_)
CleanChars(s) ==
    IF Len(s) = 0 THEN ""
    ELSE (IF Ch(s, 1) # " " /\ (IsAlnum(Ch(s, 1)) \/ Ch(s, 1) = "_") THEN Ch(s, 1) ELSE "_")
         \o CleanChars(SubSeq(s, 2, Len(s)))

\* the prefix given to every name that starts with a letter or a digit
clean_column_name_PrefixAlnum(name) ==
    IF Len(name) = 0 THEN [ok |-> FALSE, value |-> ""]
    ELSE [ok |-> TRUE,
          value |-> IF IsAlnum(Ch(CleanChars(Lower(name)), 1))
                    THEN "col_" \o CleanChars(Lower(name)) ELSE CleanChars(Lower(name))]

\* ok: a value was returned (cleaned[0] raises IndexError for the empty name)
clean_column_name(name) ==
    IF Len(name) = 0 THEN [ok |-> FALSE, value |-> ""]
    ELSE [ok |-> TRUE,
          value |-> IF IsDigit(Ch(CleanChars(Lower(name)), 1))
                    THEN "col_" \o CleanChars(Lower(name)) ELSE CleanChars(Lower(name))]

(***************************************************************************)
(* Storage Router: csv_processor.process_csv_file                           *)
(***************************************************************************)
\* num_columns > MAX_POSTGRES_COLUMNS
RouteIsWide(num_columns) == num_columns > MAX_POSTGRES_COLUMNS

PoisonSets(n) == {P \in SUBSET {1, n} : P # {} /\ Cardinality(P) <= MaxPoison}

\* the failures the environment can inject into one wide ingestion of csv
WideFaults(csv, backend) ==
    {NoFault}
    \cup (IF ~csv.hdr \/ ~csv.body THEN {} ELSE
          {Fault("duck", f, {}, "other") :
              f \in {"concat", "write", "write_partial", "register"}
                    \cup (IF csv.nrows = 0 THEN {"empty"} ELSE {})}
          \cup {Fault("store", b, {}, "other") :
              b \in {1, NumBatches(csv.ncols, batch_size)}
                    \cup (IF StoreIsWide(csv.ncols) THEN {-1} ELSE {})}
          \cup {Fault("index", b, {}, "other") : b \in {1, NumBatches(csv.ncols, batch_size)}}
          \cup (IF backend = "local" THEN {Fault("save", 0, {}, "other")} ELSE {})
          \cup (IF backend = "pinecone"
                THEN {Fault("upsert", 0, P, kind) :
                         P \in PoisonSets(csv.ncols), kind \in {"size", "other"}}
                ELSE {}))

\* failures around the wide call in the router: a database_info_id is given and
\* get_supabase_client() raises before / after the call; the WideCsvProcessor
\* constructor raises
RouterFaults == {"none", "client_before", "constructor", "client_after"}

\* store_fault: the batch whose insert failed in the catalog step (0: none, -1:
\* the group insert); poison, kind: the vectors the hosted index rejected and
\* the message it gave
\* reached: the catalog step ran on a connection that could write
Summary(kind, csv, dataset_name, fault, reached, invoked, r, narrow, result) ==
    [kind |-> kind, csv |-> csv, dataset_name |-> dataset_name,
     store_fault |-> IF fault.step = "store" /\ reached THEN fault.at ELSE 0,
     poison |-> fault.poison, kind_of_reject |-> fault.kind,
     wide_invoked |-> invoked,
     wide_ok |-> invoked /\ r.ok, duck_ok |-> invoked /\ r.duck, stored |-> invoked /\ r.stored,
     id |-> IF invoked THEN r.id ELSE 0,
     table |-> IF invoked THEN r.table ELSE "",
     row_count |-> IF invoked THEN r.row_count ELSE 0,
     column_count |-> IF invoked THEN r.column_count ELSE 0,
     indexed |-> IF invoked THEN r.indexed ELSE 0,
     narrow |-> narrow, result |-> result]

\* A behaviour makes its ingestion and delete calls first and its reads after
\* them: a read changes nothing that a later call could see.
NoReadYet == nreads = 0

SetWorld(w) ==
    /\ files' = w.files
    /\ views' = w.views
    /\ datasets' = w.datasets
    /\ columns' = w.columns
    /\ column_groups' = w.column_groups
    /\ remote' = w.remote
    /\ vsfiles' = w.vsfiles

\* the router with a failed header read failing the request on the spot
NarrowPath_HeaderFatal(returned, csv, narrow_ok) ==
    IF returned \/ ~csv.hdr THEN "none"
    ELSE IF csv.body /\ narrow_ok THEN "ok" ELSE "raise"

\* the regular processing after the try block: skipped when the wide branch
\* returned; pd.read_csv on the same content fails as the header read did
NarrowPath(returned, csv, narrow_ok) ==
    IF returned THEN "none"
    ELSE IF csv.hdr /\ csv.body /\ narrow_ok THEN "ok" ELSE "raise"

\* narrow: "none" - not attempted; "ok" / "raise" - attempted, with its outcome
RouteCsv(csv, dataset_name, rfault, fault, narrow_ok) ==
    /\ ncalls < MaxCalls
    /\ NoReadYet
    /\ rfault # "none" => fault = NoFault /\ csv.hdr /\ RouteIsWide(csv.ncols)
    /\ fault # NoFault => csv.hdr /\ RouteIsWide(csv.ncols)
    /\ \E r \in {WideProcess(World, pending, Empty, FALSE, vsType, csv, dataset_name,
                             ncalls + 1, DEFAULT_CHUNK_SIZE, batch_size, fault)} :
        LET to_wide == csv.hdr /\ RouteIsWide(csv.ncols)
            invoked == to_wide /\ rfault \notin {"client_before", "constructor"}
            returned == invoked /\ r.ok /\ rfault # "client_after"
            narrow == NarrowPath(returned, csv, narrow_ok)
            result == IF returned THEN "wide" ELSE IF narrow = "ok" THEN "narrow" ELSE "raise"
        IN  /\ ~narrow_ok => narrow = "raise" /\ csv.hdr /\ csv.body
            /\ SetWorld(IF invoked THEN r.w ELSE World)
            /\ ncalls' = ncalls + 1
            /\ call' = Summary("route", csv, dataset_name, fault,
                                invoked /\ r.duck /\ ~Locked(pending),
                                invoked, r, narrow, result)
            /\ last' = NoRead
            /\ UNCHANGED << vsType, tasks, mem, pending, nreads, deleted >>

Route ==
    \E csv \in RouterCsvs, dataset_name \in RouterNames, rfault \in RouterFaults,
       narrow_ok \in BOOLEAN :
        \E fault \in WideFaults(csv, vsType) :
            RouteCsv(csv, dataset_name, rfault, fault, narrow_ok)

(***************************************************************************)
(* Calls on the long-lived processor (the tool layer's module instance, a   *)
(* script's processor) or on a processor built for one request              *)
(***************************************************************************)
IngestCsv(csv, dataset_name, chunk, fault) ==
    /\ ncalls < MaxCalls
    /\ NoReadYet
    /\ \E r \in {WideProcess(World, pending, mem, TRUE, vsType, csv, dataset_name,
                             ncalls + 1, chunk, batch_size, fault)} :
        /\ SetWorld(r.w)
        /\ pending' = r.pend
        /\ mem' = r.m
        /\ ncalls' = ncalls + 1
        /\ call' = Summary("direct", csv, dataset_name, fault, r.duck, TRUE, r, "none",
                        IF r.ok THEN "wide" ELSE "raise")
        /\ last' = NoRead
        /\ UNCHANGED << vsType, tasks, nreads, deleted >>

IngestFrom(calls, steps) ==
    \E d \in calls :
        \E fault \in {f \in WideFaults(d.csv, vsType) : f.step \in steps} :
            IngestCsv(d.csv, d.dataset_name, d.chunk_size, fault)

FaultSteps == {"none", "duck", "store", "index", "save", "upsert"}

Ingest == IngestFrom(DirectCalls, FaultSteps)

Ids == 1..MaxCalls

CatalogOf(own) == Visible(World, IF own THEN pending ELSE NoPending)
MemOf(own) == IF own THEN mem ELSE Empty

Reads(result) ==
    /\ nreads < MaxReads
    /\ \E r \in {result} : last' = r
    /\ nreads' = nreads + 1
    /\ UNCHANGED << vsType, tasks, files, views, datasets, columns, column_groups, remote, mem,
                    vsfiles, pending, ncalls, call, deleted >>

Get ==
    \E id \in Ids, own \in BOOLEAN :
        Reads([op |-> "get", own |-> own, id |-> id, res |-> GetDataset(CatalogOf(own), id)])

\* get_dataset_columns(id, offset, limit): the first page, and a page that is
\* past the last column of a narrow dataset
Columns ==
    \E id \in Ids, own \in BOOLEAN, offset \in {0, 7}, limit \in {100} :
        Reads([op |-> "columns", own |-> own, id |-> id, offset |-> offset, limit |-> limit,
               res |-> GetDatasetColumns(CatalogOf(own), id, offset, limit)])

\* store_dataset_metadata called again with the arguments of a store that
\* failed: datasets.id is the PRIMARY KEY, so the INSERT of a row whose id the
\* connection sees raises IntegrityError before any column is inserted
RetryStore(w, pend, own, id, name, table, ncols, row_count, bsize) ==
    IF ~own /\ Locked(pend) THEN [ok |-> FALSE, w |-> w, pend |-> pend]
    ELSE IF id \in DOMAIN Visible(w, IF own THEN pend ELSE NoPending).datasets
    THEN [ok |-> FALSE, w |-> w, pend |-> pend]
    ELSE StoreDatasetMetadata(w, IF own THEN pend ELSE NoPending, id, name, table, ncols,
                              row_count, bsize, 0)

\* the store step of the latest ingestion failed and is run again, on the
\* long-lived processor's catalog connection or on a new one
Retry ==
    \E own \in BOOLEAN :
        /\ nreads < MaxReads
        /\ call.kind \in {"route", "direct"}
        /\ call.wide_invoked /\ call.duck_ok /\ ~call.stored
        /\ \E r \in {RetryStore(World, pending, own, call.id, call.dataset_name, call.table,
                                 call.column_count, call.row_count, batch_size)} :
            /\ SetWorld(r.w)
            /\ pending' = IF own THEN r.pend ELSE pending
            /\ last' = [op |-> "store", own |-> own, id |-> call.id, res |-> r.ok]
            /\ nreads' = nreads + 1
            /\ UNCHANGED << vsType, tasks, mem, ncalls, call, deleted >>

Search ==
    \E limit \in {1, SEARCH_LIMIT}, rank \in Rankings, own \in BOOLEAN :
        Reads([op |-> "search", own |-> own, rank |-> rank, limit |-> limit,
               res |-> SearchColumns(vsType, MemOf(own), remote, rank, limit)])

\* query_dataset(id, text, limit); SQL requests name the table of the dataset;
\* an unknown id is queried with one text
QueryCall(id, own, query_text, limit, rank, sfail) ==
    /\ IsSelect(query_text) => rank = "asc" /\ ~sfail
    /\ Reads([op |-> "query", own |-> own, id |-> id, text |-> query_text, limit |-> limit,
              rank |-> rank,
              nhits |-> Len(SearchColumns(vsType, MemOf(own), remote, rank, SEARCH_LIMIT)),
              res |-> QueryDataset(World, CatalogOf(own), MemOf(own), vsType, id,
                                   query_text, limit, rank, sfail)])

Query ==
    \E id \in Ids, own \in BOOLEAN, limit \in QueryLimits, rank \in Rankings, sfail \in BOOLEAN :
        /\ nreads < MaxReads
        /\ sfail => rank = "asc" /\ limit = DEFAULT_LIMIT
        /\ \E dataset \in {GetDataset(CatalogOf(own), id)} :
            \E query_text \in IF dataset = None THEN {"how many rows"}
                              ELSE SqlTexts(dataset.table_name) \cup NlTexts :
                QueryCall(id, own, query_text, limit, rank, sfail)

(***************************************************************************)
(* The tool-calling interface: function_calling.py, on the module's          *)
(* processor.  available: the module could build its processor at import.   *)
(* A payload is kind "result" or kind "error"; kind "raise" stands for an    *)
(* exception that leaves the function.                                       *)
(***************************************************************************)
\* fail: "wide" - get_dataset raises; "client" - get_supabase_client() raises;
\* "supabase" - the select on the narrow store raises.  narrow: the narrow
\* store lists the dataset.
check_dataset_storage(v, available, dataset_id, narrow, fail) ==
    IF available /\ fail # "wide" /\ GetDataset(v, dataset_id) # None
    THEN [kind |-> "result", payload |-> "duckdb"]
    ELSE IF fail = "client" THEN [kind |-> "raise", payload |-> "get_supabase_client"]
    ELSE IF fail # "supabase" /\ narrow THEN [kind |-> "result", payload |-> "supabase"]
    ELSE [kind |-> "error", payload |-> "Dataset not found"]

get_column_recommendations(available, backend, m, r, rank, limit, sfail) ==
    IF ~available THEN [kind |-> "error", payload |-> "Wide CSV processor not available"]
    ELSE IF SearchRaises(backend, m, sfail)
    THEN [kind |-> "error", payload |-> "Error getting column recommendations"]
    ELSE [kind |-> "result", payload |-> Len(SearchColumns(backend, m, r, rank, limit))]

\* res: what query_dataset does when the function reaches it
query_duckdb_dataset(available, v, dataset_id, res) ==
    IF ~available THEN [kind |-> "error", payload |-> "Wide CSV processor not available"]
    ELSE IF GetDataset(v, dataset_id) = None
    THEN [kind |-> "error", payload |-> "Dataset not found"]
    ELSE IF res.type = "raise" THEN [kind |-> "error", payload |-> "Error querying DuckDB dataset"]
    ELSE [kind |-> "result", payload |-> res.type]

Tool ==
    \E available \in BOOLEAN, id \in Ids, sfail \in BOOLEAN :
        \/ \E narrow \in BOOLEAN, fail \in {"none", "wide", "client", "supabase"} :
            /\ ~sfail
            /\ ~available => fail # "wide"
            /\ Reads([op |-> "tool", name |-> "check_dataset_storage", id |-> id,
                      available |-> available, fail |-> fail, narrow |-> narrow,
                      res |-> check_dataset_storage(CatalogOf(TRUE), available, id, narrow, fail)])
        \/ /\ id = 1
           /\ Reads([op |-> "tool", name |-> "get_column_recommendations", id |-> id,
                     available |-> available, fail |-> IF sfail THEN "search" ELSE "none",
                     narrow |-> FALSE,
                     res |-> get_column_recommendations(available, vsType, mem, remote, "desc",
                                                        SEARCH_LIMIT, sfail)])
        \/ Reads([op |-> "tool", name |-> "query_duckdb_dataset", id |-> id,
                  available |-> available, fail |-> IF sfail THEN "search" ELSE "none",
                  narrow |-> FALSE,
                  res |-> query_duckdb_dataset(available, CatalogOf(TRUE), id,
                              QueryDataset(World, CatalogOf(TRUE), mem, vsType, id,
                                           "how many rows", DEFAULT_LIMIT, "desc", sfail))])

\* PineconeVectorStore.delete_dataset: delete by metadata filter
RemoteDelete(r, id) == [d \in (DOMAIN r) \ {id} |-> r[d]]

\* the deletes after the catalog's: the saved store or the hosted vectors, then
\* the parquet file; w1: the world after MetadataStore.delete_dataset
DeleteStores(w1, pend, backend, id, table_name, dfail) ==
    IF backend = "pinecone" /\ dfail THEN [ret |-> "raise", w |-> w1, pend |-> pend]
    ELSE [ret |-> "true",
          w |-> [w1 EXCEPT !.vsfiles = IF backend = "local" /\ id \in DOMAIN w1.vsfiles
                                       THEN Del(w1.vsfiles, id) ELSE w1.vsfiles,
                           !.remote = IF backend = "pinecone" THEN RemoteDelete(w1.remote, id)
                                      ELSE w1.remote,
                           !.files = IF table_name \in DOMAIN w1.files
                                     THEN Del(w1.files, table_name) ELSE w1.files],
          pend |-> pend]

\* dataset: what get_dataset returned to the call
DeleteFound(w, pend, own, backend, id, dfail, dataset) ==
    IF dataset = None THEN [ret |-> "false", w |-> w, pend |-> pend]
    ELSE IF ~own /\ Locked(pend) THEN [ret |-> "raise", w |-> w, pend |-> pend]
    ELSE DeleteStores(CatalogDelete(w, IF own THEN pend ELSE NoPending, id),
                      IF own THEN NoPending ELSE pend, backend, id, dataset.table_name, dfail)

\* WideCsvProcessor.delete_dataset; dfail: the hosted index raises on delete.
\* ret: "true" / "false" - the value returned; "raise" - an exception left the call.
DeleteDataset(w, pend, own, backend, id, dfail) ==
    DeleteFound(w, pend, own, backend, id, dfail,
                GetDataset(Visible(w, IF own THEN pend ELSE NoPending), id))

Delete ==
    \E id \in Ids, own \in BOOLEAN, dfail \in BOOLEAN :
        /\ NoReadYet
        /\ dfail => vsType = "pinecone"
        /\ \E r \in {DeleteDataset(World, pending, own, vsType, id, dfail)} :
            /\ SetWorld(r.w)
            /\ pending' = r.pend
            /\ deleted' = IF r.ret = "true" THEN deleted \cup {id} ELSE deleted
            /\ last' = [op |-> "delete", id |-> id, res |-> r.ret]
            /\ UNCHANGED << vsType, tasks, mem, ncalls, call, nreads >>

NoCall == [kind |-> "none"]

Init ==
    /\ vsType \in Backends
    /\ files = Empty
    /\ views = {}
    /\ datasets = Empty
    /\ columns = Empty
    /\ column_groups = Empty
    /\ remote = Empty
    /\ mem = Empty
    /\ vsfiles = Empty
    /\ pending = NoPending
    /\ ncalls = 0
    /\ call = NoCall
    /\ last = NoRead
    /\ nreads = 0
    /\ deleted = {}
    /\ tasks = << >>

\* ingestion through the router and on a processor, and catalog reads
Next == Route \/ Ingest \/ Get \/ Columns \/ Retry

Spec == Init /\ [][Next]_vars

\* a processor's life: ingest, query, search, read, delete
IngestSample == IngestFrom(SampleCalls, {"none", "store", "index"})

NextQuery == IngestSample \/ Query \/ Search \/ Get \/ Delete \/ Tool

SpecQuery == Init /\ [][NextQuery]_vars

\* clean_column_name(name), as the narrow path applies it to each header name
Clean ==
    \E name \in UNION {NamesOfLen(n) : n \in 0..MaxNameLen} :
        /\ call = NoCall
        /\ call' = [kind |-> "clean", name |-> name, res |-> clean_column_name(name)]
        /\ UNCHANGED << vsType, tasks, files, views, datasets, columns, column_groups, remote, mem,
                        vsfiles, pending, ncalls, last, nreads, deleted >>

\* the column rows a wide ingestion stores for a file with the given header
\* and first-chunk cells: column_metadata["columns"] of the engine, inserted
\* by store_dataset_metadata as (dataset_id, name, type)
Describe ==
    \E n \in 1..2 :
        \E header \in [1..n -> {"c1", "My Col", "2nd"}],
           cells \in [1..n -> UNION {[1..m -> {"1", "2.5", "x", ""}] : m \in 1..2}] :
            /\ call = NoCall
            /\ call' = [kind |-> "describe", header |-> header, cells |-> cells,
                        columns |-> ColumnMetadata(header, cells)]
            /\ UNCHANGED << vsType, tasks, files, views, datasets, columns, column_groups, remote,
                            mem, vsfiles, pending, ncalls, last, nreads, deleted >>

\* the column naming and typing functions, applied to names and columns
NextColumns == Clean \/ Describe

SpecColumns == Init /\ [][NextColumns]_vars

(***************************************************************************)
(* Ingestions that overlap in time.  Each upload runs process_csv_file of   *)
(* csv_processor.py, which builds a WideCsvProcessor of its own: its own    *)
(* catalog connection and its own VectorStore; the storage directory, the   *)
(* engine's database, the catalog file and a hosted index are shared.  A    *)
(* task is at the statement it executes next.  A connection that wants to   *)
(* write while another one has an open transaction waits (sqlite3 busy      *)
(* timeout) until that transaction is committed.                            *)
(***************************************************************************)
\* the CSVs uploaded while another upload is in progress
OverlapCsvs == {Csv(TRUE, 1601, 3, TRUE), Csv(TRUE, 2001, 1, TRUE)}

Running == {q \in DOMAIN tasks : tasks[q].pc # "done"}

\* no other connection holds the catalog's write lock
WriteLockFree(p) == \A q \in DOMAIN tasks : q # p => tasks[q].pend = NoPending

\* the rows of batch b (counted from 0) of n columns
BatchRows(b, n, size) == Min((b + 1) * size, n) - b * size

SetCatalog(w) ==
    /\ datasets' = w.datasets
    /\ columns' = w.columns
    /\ column_groups' = w.column_groups

\* dataset_id = str(uuid.uuid4()) and the table name drawn by the engine
Begin ==
    \E csv \in OverlapCsvs, dataset_name \in RouterNames :
        /\ ncalls < MaxCalls
        /\ ncalls' = ncalls + 1
        /\ tasks' = [q \in DOMAIN tasks |->
                        [tasks[q] EXCEPT !.overlapped = @ \/ tasks[q].pc # "done"]]
                    \o << [pc |-> "write", csv |-> csv, dataset_name |-> dataset_name,
                           id |-> ncalls + 1, table |-> TableName(dataset_name, ncalls + 1),
                           pend |-> NoPending, batch |-> 0, ibatch |-> 0, m |-> Empty,
                           overlapped |-> Running # {}] >>
        /\ UNCHANGED << vsType, files, views, datasets, columns, column_groups, remote, mem,
                        vsfiles, pending, call, last, nreads, deleted >>

\* step 1: the chunks are read and combined_df.to_parquet writes the file
WriteFile(p) ==
    /\ tasks[p].pc = "write"
    /\ files' = Put(files, tasks[p].table,
                    [nrows |-> TotalRows(ChunkLens(tasks[p].csv.nrows, DEFAULT_CHUNK_SIZE)),
                     ncols |-> tasks[p].csv.ncols])
    /\ tasks' = [tasks EXCEPT ![p].pc = "register"]
    /\ UNCHANGED << vsType, views, datasets, columns, column_groups, remote, mem,
                    vsfiles, pending, ncalls, call, last, nreads, deleted >>

\* step 1: CREATE OR REPLACE VIEW <table_name>
RegisterView(p) ==
    /\ tasks[p].pc = "register"
    /\ views' = views \cup {tasks[p].table}
    /\ tasks' = [tasks EXCEPT ![p].pc = "insert"]
    /\ UNCHANGED << vsType, files, datasets, columns, column_groups, remote, mem,
                    vsfiles, pending, ncalls, call, last, nreads, deleted >>

\* step 2: INSERT INTO datasets, which opens the transaction of the connection
InsertDataset(p) ==
    /\ tasks[p].pc = "insert"
    /\ WriteLockFree(p)
    /\ tasks' = [tasks EXCEPT ![p].pc = "batch",
                              ![p].pend.datasets =
                                  Put(@, tasks[p].id,
                                      [name |-> tasks[p].dataset_name,
                                       table_name |-> tasks[p].table,
                                       column_count |-> tasks[p].csv.ncols,
                                       row_count |->
                                           TotalRows(ChunkLens(tasks[p].csv.nrows,
                                                               DEFAULT_CHUNK_SIZE)),
                                       storage_format |-> "parquet"])]
    /\ UNCHANGED << vsType, files, views, datasets, columns, column_groups, remote, mem,
                    vsfiles, pending, ncalls, call, last, nreads, deleted >>

\* step 2: executemany of the next batch of columns, and the commit
InsertBatch(p) ==
    /\ tasks[p].pc = "batch"
    /\ WriteLockFree(p)
    /\ SetCatalog(Commit(World, [tasks[p].pend EXCEPT !.columns =
                                    Put(@, tasks[p].id,
                                        BatchRows(tasks[p].batch, tasks[p].csv.ncols,
                                                  batch_size))]))
    /\ tasks' = [tasks EXCEPT ![p].pend = NoPending,
                              ![p].batch = @ + 1,
                              ![p].pc = IF tasks[p].batch + 1
                                           < NumBatches(tasks[p].csv.ncols, batch_size)
                                        THEN "batch"
                                        ELSE IF StoreIsWide(tasks[p].csv.ncols) THEN "groups"
                                        ELSE "index"]
    /\ UNCHANGED << vsType, files, views, remote, mem, vsfiles, pending, ncalls, call, last,
                    nreads, deleted >>

\* step 2: _create_automatic_column_groups and its commit
InsertGroups(p) ==
    /\ tasks[p].pc = "groups"
    /\ WriteLockFree(p)
    /\ SetCatalog(Commit(World, [NoPending EXCEPT !.column_groups =
                                    Put(@, tasks[p].id,
                                        AutomaticColumnGroups(tasks[p].csv.ncols))]))
    /\ tasks' = [tasks EXCEPT ![p].pc = "index"]
    /\ UNCHANGED << vsType, files, views, remote, mem, vsfiles, pending, ncalls, call, last,
                    nreads, deleted >>

\* step 3: one batch of index_columns, into the processor's own VectorStore
\* or into the shared index
IndexBatch(p) ==
    /\ tasks[p].pc = "index"
    /\ \E upto \in {DoneCols(tasks[p].ibatch + 1, tasks[p].csv.ncols, batch_size)} :
        /\ remote' = IF vsType = "local" THEN remote
                      ELSE AddRecords(remote, tasks[p].id, upto, {})
        /\ tasks' = [tasks EXCEPT ![p].m = IF vsType = "local"
                                           THEN AddRecords(@, tasks[p].id, upto, {}) ELSE @,
                                  ![p].ibatch = @ + 1,
                                  ![p].pc = IF upto < tasks[p].csv.ncols THEN "index"
                                            ELSE IF vsType = "local" THEN "save"
                                            ELSE "done"]
    /\ UNCHANGED << vsType, files, views, datasets, columns, column_groups, mem,
                    vsfiles, pending, ncalls, call, last, nreads, deleted >>

\* step 4: vector_store.save(<dataset id>.json)
SaveStore(p) ==
    /\ tasks[p].pc = "save"
    /\ vsfiles' = Save(vsfiles, tasks[p].id, tasks[p].m)
    /\ tasks' = [tasks EXCEPT ![p].pc = "done"]
    /\ UNCHANGED << vsType, files, views, datasets, columns, column_groups, remote, mem,
                    pending, ncalls, call, last, nreads, deleted >>

NextOverlap ==
    \/ Begin
    \/ \E p \in DOMAIN tasks :
          \/ WriteFile(p) \/ RegisterView(p)
          \/ InsertDataset(p) \/ InsertBatch(p) \/ InsertGroups(p)
          \/ IndexBatch(p) \/ SaveStore(p)

SpecOverlap == Init /\ [][NextOverlap]_vars

(***************************************************************************)
(* The catalog on its own: MetadataStore.store_dataset_metadata calls that  *)
(* return and MetadataStore.delete_dataset calls, on one connection.        *)
(***************************************************************************)
\* len(column_metadata["columns"]) of the datasets stored
CatalogWidths == {3, 1000, 1001, 1601}

\* store_dataset_metadata(dataset_id = a new uuid, ...) with no failure
Store ==
    \E ncols \in CatalogWidths, row_count \in {0, 3} :
        /\ ncalls < MaxCalls
        /\ \E r \in {StoreDatasetMetadata(World, pending, ncalls + 1, "t",
                                           TableName("t", ncalls + 1), ncols, row_count,
                                           batch_size, 0)} :
            /\ SetWorld(r.w)
            /\ pending' = r.pend
            /\ last' = [op |-> "store", own |-> TRUE, id |-> ncalls + 1, res |-> r.ok]
        /\ ncalls' = ncalls + 1
        /\ UNCHANGED << vsType, tasks, mem, call, nreads, deleted >>

\* delete_dataset(dataset_id); res: cursor.rowcount > 0 of the last DELETE
Remove ==
    \E id \in Ids :
        /\ SetWorld(CatalogDelete(World, pending, id))
        /\ pending' = NoPending
        /\ last' = [op |-> "catalog_delete", id |-> id,
                    res |-> id \in DOMAIN Visible(World, pending).datasets]
        /\ deleted' = IF id \in DOMAIN Visible(World, pending).datasets
                      THEN deleted \cup {id} ELSE deleted
        /\ UNCHANGED << vsType, tasks, mem, ncalls, call, nreads >>

NextCatalog == Store \/ Remove

SpecCatalog == Init /\ [][NextCatalog]_vars

(***************************************************************************)
(* The dataset listing endpoint: datasets.get_datasets                      *)
(***************************************************************************)
\* a listed dataset: its creation time and the store it came from
Item(t, store) == [created_at |-> t, storage_type |-> store]

\* the items of S, newest first (ORDER BY created_at DESC; sort(reverse=True))
RECURSIVE NewestFirst(_)
NewestFirst(S) ==
    IF S = {} THEN << >>
    ELSE LET newest == CHOOSE x \in S : \A y \in S : y.created_at <= x.created_at
         IN << newest >> \o NewestFirst(S \ {newest})

\* LIMIT ? OFFSET ? of a query, and the slice [offset : offset + limit] of a list
Page(seq, offset, limit) ==
    IF offset >= Len(seq) THEN << >>
    ELSE SubSeq(seq, offset + 1, Min(offset + limit, Len(seq)))

\* MetadataStore.list_datasets(offset, limit) over the datasets rows
list_datasets(rows, offset, limit) == Page(NewestFirst(rows), offset, limit)

Range(seq) == {seq[i] : i \in DOMAIN seq}

\* wide, narrow: the rows of the catalog and of the narrow store; fail: the
\* wide store raises and only the narrow store is listed
get_datasets(wide, narrow, skip, limit, fail) ==
    LET duckdb_datasets == IF fail THEN << >> ELSE list_datasets(wide, skip, limit)
        all_datasets == NewestFirst(Range(duckdb_datasets) \cup narrow)
    IN [datasets |-> Page(all_datasets, skip, limit), total |-> Len(all_datasets)]

\* GET /datasets?skip=..&limit=.. over stores holding datasets created at
\* the times 1..MaxDatasets, each in one of the two stores or in neither
List ==
    \E store \in [1..MaxDatasets -> {"duckdb", "supabase", "none"}],
       skip \in {0, 1, 2}, limit \in {1, 2, 100}, fail \in BOOLEAN :
        /\ call = NoCall
        /\ fail => skip = 0 /\ limit = 100
        /\ call' = [kind |-> "list", skip |-> skip, limit |-> limit, fail |-> fail,
                    wide |-> {Item(t, "duckdb") : t \in {x \in 1..MaxDatasets :
                                                            store[x] = "duckdb"}},
                    narrow |-> {Item(t, "supabase") : t \in {x \in 1..MaxDatasets :
                                                               store[x] = "supabase"}},
                    res |-> get_datasets(
                                {Item(t, "duckdb") : t \in {x \in 1..MaxDatasets :
                                                               store[x] = "duckdb"}},
                                {Item(t, "supabase") : t \in {x \in 1..MaxDatasets :
                                                                 store[x] = "supabase"}},
                                skip, limit, fail)]
        /\ UNCHANGED << vsType, tasks, files, views, datasets, columns, column_groups,
                        remote, mem, vsfiles, pending, ncalls, last, nreads, deleted >>

NextList == List

SpecList == Init /\ [][NextList]_vars

(***************************************************************************)
(* Properties.                                                              *)
(***************************************************************************)
\* C1: for every CSV whose header read succeeds, the router invokes the wide
\* ingestion path if and only if the header has more than 1600 columns; at
\* 1600 columns or fewer the wide engine is never invoked.
C1_WideIffOver1600 ==
    call.kind = "route" /\ call.csv.hdr
        => (call.wide_invoked <=> call.csv.ncols > 1600)

\* C2: a query text that starts with SELECT (after trimming, in any case) is
\* executed as that SQL text (at most with the row cap appended) and the
\* result is tagged sql_query, whatever other words the text contains.
C2_SelectExecutedVerbatim ==
    last.op = "query" /\ last.res.type # "raise" /\ IsSelect(last.text)
        => /\ last.res.type = "sql_query"
           /\ last.res.results.executed
                \in {last.text, last.text \o " LIMIT " \o ToStr(last.limit)}

\* the round-trip request of C3: the latest ingestion succeeded and its table
\* is read back with SELECT * FROM <backing_name> LIMIT n
IsRoundTrip(n) ==
    /\ last.op = "query"
    /\ call.kind = "direct" /\ call.wide_ok /\ last.id = call.id
    /\ last.text = SelectAll(call.table, n)
    /\ last.res.type = "sql_query"

\* C3 as stated: after a successful ingestion, SELECT * FROM <backing_name>
\* LIMIT n returns exactly min(n, row_count) rows whose columns are the
\* columns reported at ingestion, for every n and every chunk size.
C3_RoundTripAsStated ==
    \A n \in SqlLimits :
        IsRoundTrip(n)
            => /\ last.res.results.kind = "rows"
               /\ last.res.results.n = Min(n, call.row_count)
               /\ last.res.results.cols = << "*" >>
               /\ files[call.table].ncols = call.column_count

\* C3: after a successful ingestion, SELECT * FROM <backing_name> LIMIT n
\* returns exactly min(n, row_count) rows with the columns reported at
\* ingestion whenever min(n, row_count) does not exceed the limit argument of
\* the query (default 1000); beyond it the result is a warning object that
\* holds the first limit rows.
C3_RoundTripWithinLimit ==
    \A n \in SqlLimits :
        IsRoundTrip(n)
            => /\ last.res.results.cols = << "*" >>
               /\ files[call.table].ncols = call.column_count
               /\ IF Min(n, call.row_count) <= last.limit
                  THEN /\ last.res.results.kind = "rows"
                       /\ last.res.results.n = Min(n, call.row_count)
                  ELSE /\ last.res.results.kind = "warning"
                       /\ last.res.results.n = last.limit

C3_Witness ==
    /\ IsRoundTrip(5)
    /\ call.csv.nrows = 3
    /\ last.res.results.kind = "rows"
    /\ last.res.results.n = 3

\* C4: chunked ingestion is all-or-nothing: whenever it fails (header read,
\* empty body, batch parse, concatenation, file write, view registration) the
\* call fails, no columnar file exists for the generated backing identifier
\* and no view is registered under it.
C4_AllOrNothing ==
    call.kind # "none" /\ call.wide_invoked /\ ~call.duck_ok
        => /\ ~call.wide_ok
           /\ call.table \notin DOMAIN files
           /\ call.table \notin views

C4_Witness ==
    /\ call.kind = "direct" /\ ~call.duck_ok
    /\ call.csv.hdr /\ call.csv.body /\ call.csv.nrows > 0

\* C5: when the wide path fails for a CSV routed to it, the router's call
\* fails and the CSV is not ingested through the narrow path.
C5_WideFailureIsFatal ==
    call.kind = "route" /\ call.wide_invoked /\ ~call.wide_ok
        => call.result = "raise" /\ call.narrow = "none"

\* C6: the wide ingestion call never returns a success result while some of
\* the dataset's columns are missing from the index.
C6_NoSilentPartialIndex ==
    call.kind # "none" /\ call.wide_ok => call.indexed = call.column_count

\* C7: for a stored dataset, get returns the group list plus a column sample
\* of at most 10 entries and no full column list when the dataset has more
\* than 1000 columns, and the full column list (as long as column_count) and
\* no groups when it has 1000 columns or fewer.
C7_GetByWidth ==
    last.op = "get" /\ call.kind # "none" /\ call.stored /\ last.id = call.id
    /\ last.res # None
        => IF call.column_count > 1000
           THEN /\ {"column_groups", "columns_sample"} \subseteq last.res.keys
                /\ "columns" \notin last.res.keys
                /\ Len(last.res.column_groups) > 0
                /\ last.res.columns_sample <= 10
           ELSE /\ last.res.keys = {"columns"}
                /\ last.res.columns = call.column_count
                /\ last.res.columns = last.res.column_count

C7_Witness ==
    /\ last.op = "get" /\ call.kind # "none" /\ call.stored /\ last.id = call.id
    /\ last.res # None
    /\ call.column_count = 1001
    /\ last.res.columns_sample = 10

C9_FirstRuleWins ==
    /\ GenerateSql("how many rows", "t1", "c1", 2) = "SELECT COUNT(*) AS count FROM t1"
    /\ last.op = "query" /\ last.res.type = "nl_query"
         => LET text == Lower(last.text)
                table == GetDataset(CatalogOf(last.own), last.id).table_name
                top == last.res.relevant_columns[1].column_name
                rule == IF Contains(text, "count") \/ Contains(text, "how many") THEN 1
                        ELSE IF Contains(text, "average") \/ Contains(text, "mean") THEN 2
                        ELSE IF Contains(text, "maximum") \/ Contains(text, "max") THEN 3
                        ELSE IF Contains(text, "minimum") \/ Contains(text, "min") THEN 4
                        ELSE 5
            IN  /\ ~IsSelect(last.text)
                /\ last.res.sql_query =
                     CASE rule = 1 -> "SELECT COUNT(*) AS count FROM " \o table
                       [] rule = 2 -> "SELECT AVG(" \o top \o ") AS average FROM " \o table
                       [] rule = 3 -> "SELECT MAX(" \o top \o ") AS maximum FROM " \o table
                       [] rule = 4 -> "SELECT MIN(" \o top \o ") AS minimum FROM " \o table
                       [] OTHER -> "SELECT " \o top \o " FROM " \o table
                                   \o " LIMIT " \o ToStr(last.limit)
                /\ last.text = "how many rows"
                     => last.res.sql_query = "SELECT COUNT(*) AS count FROM " \o table
                /\ last.text = "Count the max"
                     => last.res.sql_query = "SELECT COUNT(*) AS count FROM " \o table

C9_Witness ==
    /\ last.op = "query" /\ last.res.type = "nl_query"
    /\ last.text = "Count the max"

C11_SqlResultsCapped ==
    last.op = "query" /\ last.res.type = "sql_query"
        => /\ last.res.results.kind # "warning"
           /\ last.res.results.kind = "rows" => last.res.results.n <= last.limit

\* C12: every list returned by search_columns(query_text, limit) has at most
\* limit entries, and its scores never increase from one entry to the next.
C12_SearchRanked ==
    last.op = "search"
        => /\ Len(last.res) <= last.limit
           /\ \A i \in 1..(Len(last.res) - 1) : last.res[i].score >= last.res[i + 1].score

\* a search over an index of more than limit entries returned limit >= 2 hits
C12_Witness ==
    /\ last.op = "search"
    /\ last.limit = SEARCH_LIMIT
    /\ Len(last.res) = SEARCH_LIMIT
    /\ last.res[1].score > last.res[SEARCH_LIMIT].score

\* C13: clean_column_name is idempotent: for every name it returns a value
\* for, cleaning the returned name returns it unchanged - a name that starts
\* with a digit is prefixed with col_ once, and names with spaces, upper-case
\* letters or special characters are stable after one cleaning.
C13_CleanIdempotent ==
    call.kind = "clean" /\ call.res.ok => clean_column_name(call.res.value) = call.res

\* a name that starts with a digit and holds a space, an upper-case letter or
\* a special character was cleaned
C13_Witness ==
    /\ call.kind = "clean"
    /\ call.name = "7Z "
    /\ call.res = [ok |-> TRUE, value |-> "col_7z_"]

\* C14: an unknown dataset id is reported by a not-found signal of its own
\* and never as an empty result: get returns none, query_dataset reports
\* "Dataset not found", and the paginated column listing does not return for
\* it the empty page it returns for an existing dataset with no matching rows.
C14_UnknownIdIsNotFound ==
    last.op \in {"get", "query", "columns"}
    /\ last.id \notin DOMAIN CatalogOf(last.own).datasets
        => /\ last.op = "get" => last.res = None
           /\ last.op = "query"
                => last.res.type = "raise" /\ last.res.message = "Dataset not found"
           /\ last.op = "columns" => last.res # << >>

\* C15: every operation of the tool-calling interface (check_dataset_storage,
\* get_column_recommendations, query_duckdb_dataset) returns a result or an
\* error payload for every input and every backend failure; no exception
\* leaves the function.
C15_ToolsNeverRaise ==
    last.op = "tool" => last.res.kind \in {"result", "error"}

\* C16: when reading the CSV header fails in the router, the request does not
\* fail at that point: the narrow path is attempted on the same content, and
\* the wide engine is not invoked.
C16_HeaderFailureFallsBack ==
    call.kind = "route" /\ ~call.csv.hdr
        => ~call.wide_invoked /\ call.narrow # "none"

\* a routed file whose header cannot be read: the narrow path ran and raised
C16_Witness ==
    /\ call.kind = "route"
    /\ ~call.csv.hdr
    /\ ~call.wide_invoked
    /\ call.narrow = "raise"
    /\ call.result = "raise"

\* C17: the store operation of the catalog derives column groups if and only
\* if the dataset has more than 1000 columns; the sequential-window groups
\* are then consecutive windows of 500 columns in column order that
\* partition the columns 1..column_count (the last window possibly shorter),
\* ceil(column_count / 500) of them.
C17_GroupsAbove1000 ==
    call.kind # "none" /\ call.stored
        => LET n == call.column_count
               gs == IF call.id \in DOMAIN column_groups THEN column_groups[call.id] ELSE << >>
               J == {j \in 1..Len(gs) : StartsWith(gs[j].name, "Columns ")}
           IN /\ gs # << >> <=> n > 1000
              /\ n > 1000 =>
                   /\ Cardinality(J) = (n + 499) \div 500
                   /\ \A j \in J : \E k \in 1..Cardinality(J) :
                          /\ gs[j].first = 500 * (k - 1) + 1
                          /\ gs[j].last = Min(500 * k, n)
                          /\ gs[j].name = "Columns " \o ToStr(gs[j].first) \o "-" \o ToStr(gs[j].last)
                   /\ \A i \in J, j \in J : i < j => gs[i].last < gs[j].first

\* a 1601-column dataset was stored with its 4 windows, the last one 1501-1601
C17_Witness ==
    /\ call.kind # "none" /\ call.stored
    /\ call.column_count = 1601
    /\ call.id \in DOMAIN column_groups
    /\ Len(column_groups[call.id]) = 5
    /\ column_groups[call.id][5] = [name |-> "Columns 1501-1601", first |-> 1501, last |-> 1601]

\* C18: the column names a wide ingestion stores in the catalog are pairwise
\* distinct, and each one is identifier-safe (lower-case, only alphanumerics
\* and underscore, not starting with a digit), whatever the header names.
C18_StoredNamesSafe ==
    call.kind = "describe"
        => /\ \A i \in DOMAIN call.columns, j \in DOMAIN call.columns :
                  i # j => call.columns[i].name # call.columns[j].name
           /\ \A i \in DOMAIN call.columns :
                  LET name == call.columns[i].name
                  IN /\ name = Lower(name)
                     /\ \A c \in 1..Len(name) : IsAlnum(Ch(name, c)) \/ Ch(name, c) = "_"
                     /\ ~IsDigit(Ch(name, 1))

\* C20: the type recorded for a column at ingestion is inferred from the
\* first batch: Int64 when its non-null values are all numeric and integral,
\* float64 when they are all numeric and one has a fraction, object otherwise.
C20_TypesInferred ==
    call.kind = "describe"
        => \A i \in DOMAIN call.columns :
               LET values == {call.cells[i][j] : j \in DOMAIN call.cells[i]} \ {""}
                   numeric(v) == \A c \in 1..Len(v) : IsDigit(Ch(v, c)) \/ Ch(v, c) = "."
               IN values # {}
                  => call.columns[i].type =
                        IF \A v \in values : IsNum(v) THEN "Int64"
                        ELSE IF \A v \in values : numeric(v) THEN "float64"
                        ELSE "object"

\* C19: within one wide ingestion call the writes happen in a fixed order, and
\* a later step is never started when an earlier one failed: the dataset is
\* in the catalog only if its columnar file was written and registered, and
\* the index (or the saved store) holds columns of the dataset only if the
\* catalog store returned, with the dataset row and all its column rows.
C19_WritesInOrder ==
    call.kind \in {"route", "direct"} /\ call.wide_invoked
        => LET v == Visible(World, pending)
               file == call.table \in DOMAIN files /\ call.table \in views
               cataloged == call.id \in DOMAIN v.datasets
               indexed == \/ EntryCount(mem, call.id) > 0
                          \/ EntryCount(remote, call.id) > 0
                          \/ call.id \in DOMAIN vsfiles
           IN /\ cataloged => file /\ call.duck_ok
              /\ indexed => /\ cataloged /\ call.stored
                            /\ call.id \in DOMAIN v.columns
                            /\ v.columns[call.id] = call.column_count

\* the catalog store failed after the file was written: nothing was indexed
C19_Witness ==
    /\ call.kind = "direct" /\ call.duck_ok /\ ~call.stored
    /\ call.table \in DOMAIN files
    /\ call.column_count = 1001
    /\ EntryCount(mem, call.id) = 0 /\ EntryCount(remote, call.id) = 0
    /\ call.id \notin DOMAIN vsfiles

\* C21: the catalog commits the columns batch by batch: after the insert of
\* batch k failed, the dataset record and the columns of the batches 1..k-1 are
\* stored, and a retry of the store for that dataset succeeds and leaves the
\* dataset with its complete column set, each column once.
C21_RetryCompletes ==
    /\ (call.kind \in {"route", "direct"} /\ call.store_fault >= 1 /\ last = NoRead)
         => /\ call.id \in DOMAIN datasets
            /\ (IF call.id \in DOMAIN columns THEN columns[call.id] ELSE 0)
                 = (call.store_fault - 1) * batch_size
    /\ last.op = "store"
         => /\ last.res
            /\ last.id \in DOMAIN datasets /\ last.id \in DOMAIN columns
            /\ columns[last.id] = datasets[last.id].column_count

\* C22: in the hosted backend a failed upsert batch of any kind is retried
\* (halved, then vector by vector) before its vectors are dropped, so the only
\* vectors missing from the index after an ingestion are vectors whose own
\* single-item upsert was rejected.
C22_FailedBatchRetried ==
    call.kind \in {"route", "direct"} /\ call.wide_ok /\ vsType = "pinecone"
    /\ call.id \in DOMAIN remote
        => remote[call.id].missing \subseteq call.poison

\* C23: the storage probe checks the wide store first and the narrow store
\* second; a failure while checking a store counts as that store not having
\* the dataset, and the not-found payload is returned exactly when neither
\* store yields it.
C23_ProbeFallsThrough ==
    last.op = "tool" /\ last.name = "check_dataset_storage"
        => LET wide_has == /\ last.available /\ last.fail # "wide"
                           /\ GetDataset(CatalogOf(TRUE), last.id) # None
               narrow_has == last.narrow /\ last.fail \notin {"client", "supabase"}
           IN last.res = IF wide_has THEN [kind |-> "result", payload |-> "duckdb"]
                         ELSE IF narrow_has THEN [kind |-> "result", payload |-> "supabase"]
                         ELSE [kind |-> "error", payload |-> "Dataset not found"]

\* C24: when ingestions of different datasets overlap in time, the column
\* rows stored under a dataset id are those its own ingestion committed, no
\* step of one ingestion alters the file, the view or the rows of the other,
\* and each finished ingestion has its file, its view, its dataset record, as
\* many column rows as its column_count, its groups and its index entries.
C24_OverlapSeparate ==
    \A p \in DOMAIN tasks :
        LET t == tasks[p]
            n == t.csv.ncols
            stored == IF t.id \in DOMAIN columns THEN columns[t.id] ELSE 0
        IN /\ stored = Min(t.batch * batch_size, n)
           /\ t.pc \notin {"write"}
                => /\ t.table \in DOMAIN files
                   /\ files[t.table] = [nrows |-> t.csv.nrows, ncols |-> n]
           /\ t.pc \notin {"write", "register"} => t.table \in views
           /\ t.pc = "done"
                => /\ t.id \in DOMAIN datasets
                   /\ datasets[t.id].column_count = n
                   /\ datasets[t.id].table_name = t.table
                   /\ datasets[t.id].row_count = t.csv.nrows
                   /\ stored = n
                   /\ column_groups[t.id] = AutomaticColumnGroups(n)
                   /\ IF vsType = "local"
                      THEN /\ t.id \in DOMAIN vsfiles
                           /\ DOMAIN vsfiles[t.id] = {t.id}
                           /\ EntrySet(vsfiles[t.id][t.id]) = 1..n
                      ELSE t.id \in DOMAIN remote /\ EntrySet(remote[t.id]) = 1..n

\* two ingestions of different CSVs ran side by side and both finished
C24_Witness ==
    /\ Len(tasks) = 2
    /\ tasks[1].csv # tasks[2].csv
    /\ tasks[1].pc = "done" /\ tasks[2].pc = "done"
    /\ tasks[1].overlapped /\ tasks[2].overlapped

\* C25: in the natural-language branch of query_dataset(D, text, limit) the
\* top column put into the generated SQL and every entry of relevant_columns
\* is a column of dataset D, whatever other datasets the index holds.
C25_ColumnsOfDataset ==
    last.op = "query" /\ last.res.type = "nl_query"
        => \A i \in 1..Len(last.res.relevant_columns) :
               last.res.relevant_columns[i].dataset_id = last.id

C27_DeleteRemovesArtifacts ==
    [][last'.op = "delete"
         => /\ last'.res = "true"
                 => LET table == Visible(World, pending).datasets[last'.id].table_name
                    IN table \notin DOMAIN files' /\ table \notin views'
            /\ last'.res = "false"
                 => UNCHANGED << files, views, datasets, columns, column_groups, remote,
                                 vsfiles, mem, pending >>]_vars

\* C28: when the wide ingestion fails in the catalog step or in the index step
\* after the engine step succeeded, nothing of it remains when the failure is
\* reported: no parquet file, no view, no dataset, column or group rows and no
\* index entries for the generated dataset id.
C28_FailureLeavesNothing ==
    call.kind \in {"route", "direct"} /\ call.wide_invoked /\ call.duck_ok /\ ~call.wide_ok
    /\ last = NoRead
        => /\ call.table \notin DOMAIN files
           /\ call.table \notin views
           /\ call.id \notin DOMAIN datasets
           /\ call.id \notin DOMAIN columns
           /\ call.id \notin DOMAIN column_groups
           /\ call.id \notin DOMAIN remote
           /\ call.id \notin DOMAIN vsfiles

\* C29: after any sequence of store calls that returned and delete calls,
\* every column row and every group row carries the id of a dataset row, and
\* every dataset has as many column rows as its column_count.
C29_CatalogIntegrity ==
    /\ DOMAIN columns \subseteq DOMAIN datasets
    /\ DOMAIN column_groups \subseteq DOMAIN datasets
    /\ \A d \in DOMAIN datasets :
           (IF d \in DOMAIN columns THEN columns[d] ELSE 0) = datasets[d].column_count

\* a stored dataset was deleted while a dataset of 1601 columns is stored
C29_Witness ==
    /\ last.op = "catalog_delete" /\ last.res
    /\ \E d \in DOMAIN datasets :
           /\ datasets[d].column_count = 1601
           /\ columns[d] = 1601
           /\ d \in DOMAIN column_groups

\* C30: get_datasets(skip, limit) returns the slice [skip, skip + limit) of
\* the list of all datasets of both stores, newest first, and its total is
\* the number of all datasets in both stores.
C30_ListIsSliceOfAll ==
    call.kind = "list" /\ ~call.fail
        => /\ call.res.datasets
                = Page(NewestFirst(call.wide \cup call.narrow), call.skip, call.limit)
           /\ call.res.total = Cardinality(call.wide) + Cardinality(call.narrow)

====
